---------------------------- MODULE Spec2Model ----------------------------
(***************************************************************************)
(* stopcon: GoPro recording fragments are recognised by file name, probed  *)
(* for metadata, aggregated per recording id, and then renamed and/or      *)
(* merged.  The model follows src/src/entrypoint/entrypoint.go and the     *)
(* format package (src/unnamed/part_000).  File names are real strings;    *)
(* the matchers' regular expressions and layouts are executed on them.     *)
(***************************************************************************)
EXTENDS Integers, Sequences, FiniteSets, Bags, TLC

(***************************************************************************)
(* Bounds of the model.                                                    *)
(***************************************************************************)
MaxEntries == 2     \* most directory entries of the first run
MaxRuns == 2        \* most invocations of the program on one directory

(***************************************************************************)
(* Strings and numbers.                                                    *)
(***************************************************************************)
Digits == {"0", "1", "2", "3", "4", "5", "6", "7", "8", "9"}

Letters ==
  {"a", "b", "c", "d", "e", "f", "g", "h", "i", "j", "k", "l", "m",
   "n", "o", "p", "q", "r", "s", "t", "u", "v", "w", "x", "y", "z",
   "A", "B", "C", "D", "E", "F", "G", "H", "I", "J", "K", "L", "M",
   "N", "O", "P", "Q", "R", "S", "T", "U", "V", "W", "X", "Y", "Z"}

DigitStr == <<"0", "1", "2", "3", "4", "5", "6", "7", "8", "9">>

\* F applied to the value of v, which is computed once (an evaluation
\* order only: Let(v, F) = F(v)).
Let(v, F(_)) == CHOOSE r \in {F(y) : y \in {v}} : TRUE

\* The character of s at position i (1-based).
CharAt(s, i) == SubSeq(s, i, i)

\* The rest of s from position i on.
From(s, i) == SubSeq(s, i, Len(s))

DigitVal(c) == (CHOOSE k \in 1..10 : DigitStr[k] = c) - 1

AllIn(s, cls) == \A i \in 1..Len(s) : CharAt(s, i) \in cls

\* strconv.Atoi on a string of decimal digits; <<>> stands for the error.
RECURSIVE AtoiDigits(_, _)
AtoiDigits(s, acc) ==
  Let(<<s, acc>>, LAMBDA a :
    IF a[1] = "" THEN a[2]
    ELSE AtoiDigits(Tail(a[1]), a[2] * 10 + DigitVal(Head(a[1]))))

Atoi(s) ==
  Let(s, LAMBDA v :
    IF v # "" /\ AllIn(v, Digits) THEN <<AtoiDigits(v, 0)>> ELSE <<>>)

\* Decimal rendering of a natural number.
RECURSIVE Itoa(_)
Itoa(n) ==
  Let(n, LAMBDA v :
    IF v < 10 THEN DigitStr[v + 1]
    ELSE Itoa(v \div 10) \o DigitStr[(v % 10) + 1])

\* Left padding with zeros to a minimal width (the %02d, %04d verbs).
RECURSIVE ZeroPad(_, _)
ZeroPad(s, w) ==
  Let(s, LAMBDA v : IF Len(v) >= w THEN v ELSE ZeroPad("0" \o v, w))

\* The first position at or after which s holds one of the texts marks,
\* 0 when it holds none.
FirstOf(s, marks) ==
  Let({i \in 1..Len(s) :
         \E m \in marks : i + Len(m) - 1 <= Len(s)
                            /\ SubSeq(s, i, i + Len(m) - 1) = m}, LAMBDA at :
    IF at = {} THEN 0 ELSE CHOOSE i \in at : \A j \in at : i <= j)

\* fmt.Sprintf for the verbs the program uses: %s and %02d.  Text up to
\* the next verb is copied, the verb takes the next argument.
RECURSIVE Sprintf(_, _)
Sprintf(layout, args) ==
  Let(<<layout, args, FirstOf(layout, {"%s", "%02d"})>>, LAMBDA a :
    IF a[3] = 0 \/ a[2] = <<>> THEN a[1]
    ELSE IF SubSeq(a[1], a[3], a[3] + 1) = "%s"
      THEN SubSeq(a[1], 1, a[3] - 1) \o Head(a[2])
           \o Sprintf(From(a[1], a[3] + 2), Tail(a[2]))
    ELSE SubSeq(a[1], 1, a[3] - 1) \o ZeroPad(Itoa(Head(a[2])), 2)
         \o Sprintf(From(a[1], a[3] + 4), Tail(a[2])))

\* filepath.Join of a directory and a file name.
PathJoin(dir, name) == dir \o "/" \o name

(***************************************************************************)
(* Package format: tokens and matchers.  A capture group is kept as the    *)
(* list of its atoms: a character class and a repetition count, 0 for +.   *)
(***************************************************************************)
Atom(cls, n) == [cls |-> cls, n |-> n]

\* [0-9]{4}-[0-9]{2}-[0-9]{2} [0-9]{2}_[0-9]{2}_[0-9]{2}
tokenDate ==
  [name |-> "date",
   captureGroup |-> <<Atom(Digits, 4), Atom({"-"}, 1), Atom(Digits, 2),
                      Atom({"-"}, 1), Atom(Digits, 2), Atom({" "}, 1),
                      Atom(Digits, 2), Atom({"_"}, 1), Atom(Digits, 2),
                      Atom({"_"}, 1), Atom(Digits, 2)>>,
   formatSpecifier |-> "%s"]

\* [0-9]{4}
tokenId ==
  [name |-> "id", captureGroup |-> <<Atom(Digits, 4)>>,
   formatSpecifier |-> "%s"]

\* Mutant of tokenIndex: the capture group takes one digit.
tokenIndex_OneDigit ==
  [name |-> "index", captureGroup |-> <<Atom(Digits, 1)>>,
   formatSpecifier |-> "%02d"]

\* [0-9]{2}
tokenIndex ==
  [name |-> "index", captureGroup |-> <<Atom(Digits, 2)>>,
   formatSpecifier |-> "%02d"]

\* [a-zA-Z0-9]+
tokenExtension ==
  [name |-> "extension", captureGroup |-> <<Atom(Letters \cup Digits, 0)>>,
   formatSpecifier |-> "%s"]

\* [XH]
tokenCodec ==
  [name |-> "codec", captureGroup |-> <<Atom({"X", "H"}, 1)>>,
   formatSpecifier |-> "%s"]

\* The regular expression "^" + Sprintf(base, groups...) + "$" as a list of
\* items: a literal text, the wildcard "." or a capture group.
RECURSIVE RegexItems(_, _)
RegexItems(base, toks) ==
  Let(<<base, toks, FirstOf(base, {"%s", "."})>>, LAMBDA a :
    IF a[1] = "" THEN <<>>
    ELSE IF a[3] = 0 THEN <<[kind |-> "lit", text |-> a[1]]>>
    ELSE IF a[3] > 1
      THEN <<[kind |-> "lit", text |-> SubSeq(a[1], 1, a[3] - 1)]>>
           \o RegexItems(From(a[1], a[3]), a[2])
    ELSE IF Head(a[1]) = "."
      THEN <<[kind |-> "any"]>> \o RegexItems(Tail(a[1]), a[2])
    ELSE IF a[2] = <<>>
      THEN <<[kind |-> "lit", text |-> "%s"]>>
           \o RegexItems(From(a[1], 3), a[2])
    ELSE <<[kind |-> "group", atoms |-> Head(a[2]).captureGroup]>>
         \o RegexItems(From(a[1], 3), Tail(a[2])))

\* matcher.compile: token indices, the name map, the layout and the regex.
compile(m) ==
  LET slice == [i \in 1..Len(m.Tokens) |->
                  [name |-> m.Tokens[i].name,
                   Index |-> i - 1,
                   captureGroup |-> m.Tokens[i].captureGroup,
                   formatSpecifier |-> m.Tokens[i].formatSpecifier]]
      names == {slice[i].name : i \in 1..Len(slice)}
  IN [base |-> m.base,
      Tokens |-> [Slice |-> slice,
                  Map |-> [n \in names |->
                             slice[CHOOSE i \in 1..Len(slice) :
                                     /\ slice[i].name = n
                                     /\ \A j \in (i + 1)..Len(slice) :
                                          slice[j].name # n]]],
      Layout |-> Sprintf(m.base,
                         [i \in 1..Len(slice) |-> slice[i].formatSpecifier]),
      Regex |-> RegexItems(m.base, slice)]

Raw ==
  compile([base |-> "G%s%s%s.%s",
           Tokens |-> <<tokenCodec, tokenIndex, tokenId, tokenExtension>>])

Renamed ==
  compile([base |-> "Recording _-_ Date %s _-_ ID %s _-_ Part %s.%s",
           Tokens |-> <<tokenDate, tokenId, tokenIndex, tokenExtension>>])

Merged ==
  compile([base |-> "Recording _-_ Date %s _-_ ID %s.%s",
           Tokens |-> <<tokenDate, tokenId, tokenExtension>>])

\* The length the atoms of a capture group take at the front of s, or -1.
\* A + atom takes every following character of its class (greedy); every
\* such atom of the program is followed by the end of the expression.
RECURSIVE PlusLen(_, _)
PlusLen(s, cls) ==
  Let(s, LAMBDA v :
    IF v # "" /\ Head(v) \in cls THEN 1 + PlusLen(Tail(v), cls) ELSE 0)

RECURSIVE AtomsLen(_, _)
AtomsLen(atoms, s) ==
  Let(<<atoms, s>>, LAMBDA a :
    IF a[1] = <<>> THEN 0
    ELSE Let(IF Head(a[1]).n = 0 THEN PlusLen(a[2], Head(a[1]).cls)
             ELSE Head(a[1]).n, LAMBDA k :
      IF k = 0 \/ k > Len(a[2]) \/ ~AllIn(SubSeq(a[2], 1, k), Head(a[1]).cls)
      THEN -1
      ELSE Let(AtomsLen(Tail(a[1]), From(a[2], k + 1)), LAMBDA r :
             IF r < 0 THEN -1 ELSE k + r)))

\* Regex.FindStringSubmatch: <<>> when the whole string does not match,
\* otherwise the whole match followed by the text of each capture group.
RECURSIVE MatchItems(_, _, _)
MatchItems(items, s, groups) ==
  Let(<<items, s, groups>>, LAMBDA a :
    IF a[1] = <<>> THEN (IF a[2] = "" THEN a[3] ELSE <<>>)
    ELSE IF Head(a[1]).kind = "group"
      THEN Let(AtomsLen(Head(a[1]).atoms, a[2]), LAMBDA k :
             IF k < 0 THEN <<>>
             ELSE MatchItems(Tail(a[1]), From(a[2], k + 1),
                             Append(a[3], SubSeq(a[2], 1, k))))
    ELSE IF Head(a[1]).kind = "any"
      THEN IF a[2] = "" THEN <<>>
           ELSE MatchItems(Tail(a[1]), Tail(a[2]), a[3])
    ELSE Let(Len(Head(a[1]).text), LAMBDA n :
           IF n > Len(a[2]) \/ SubSeq(a[2], 1, n) # Head(a[1]).text THEN <<>>
           ELSE MatchItems(Tail(a[1]), From(a[2], n + 1), a[3])))

FindStringSubmatch(regex, s) == MatchItems(regex, s, <<s>>)


(***************************************************************************)
(* Package time, as far as the program uses it.                            *)
(***************************************************************************)
IsLeap(y) == (y % 4 = 0 /\ y % 100 # 0) \/ y % 400 = 0

DaysIn(y, m) ==
  IF m = 2 THEN (IF IsLeap(y) THEN 29 ELSE 28)
  ELSE IF m \in {4, 6, 9, 11} THEN 30 ELSE 31

\* The fraction digits of a second as nanoseconds (at most nine count).
RECURSIVE Scale(_, _)
Scale(v, k) == Let(<<v, k>>, LAMBDA a :
                 IF a[2] = 0 THEN a[1] ELSE Scale(a[1] * 10, a[2] - 1))

FracNanos(ds) ==
  Let(IF Len(ds) > 9 THEN SubSeq(ds, 1, 9) ELSE ds, LAMBDA d9 :
    Scale(AtoiDigits(d9, 0), 9 - Len(d9)))

\* The numbers of the fields of "2006-01-02T15:04:05", each <<>> when it
\* is not a number.
TimeFields(s) ==
  [year |-> Atoi(SubSeq(s, 1, 4)), month |-> Atoi(SubSeq(s, 6, 7)),
   day |-> Atoi(SubSeq(s, 9, 10)), hour |-> Atoi(SubSeq(s, 12, 13)),
   min |-> Atoi(SubSeq(s, 15, 16)), sec |-> Atoi(SubSeq(s, 18, 19))]

\* time.Parse("2006-01-02T15:04:05.9Z", s): <<>> stands for the error.
TimeParse(s) ==
  Let(s, LAMBDA v :
    IF Len(v) < 20 THEN <<>>
    ELSE Let(From(v, 20), LAMBDA rest :
      Let(IF Len(rest) >= 2 /\ Head(rest) = "." /\ CharAt(rest, 2) \in Digits
          THEN PlusLen(Tail(rest), Digits) ELSE 0, LAMBDA fl :
        Let(TimeFields(v), LAMBDA n :
          IF ~(/\ CharAt(v, 5) = "-" /\ CharAt(v, 8) = "-"
               /\ CharAt(v, 11) = "T"
               /\ CharAt(v, 14) = ":" /\ CharAt(v, 17) = ":"
               /\ \A k \in DOMAIN n : n[k] # <<>>
               /\ (IF fl = 0 THEN rest ELSE From(rest, fl + 2)) = "Z")
          THEN <<>>
          ELSE IF /\ n.month[1] \in 1..12
                  /\ n.day[1] \in 1..DaysIn(n.year[1], n.month[1])
                  /\ n.hour[1] < 24 /\ n.min[1] < 60 /\ n.sec[1] < 60
            THEN <<[year |-> n.year[1], month |-> n.month[1],
                    day |-> n.day[1], hour |-> n.hour[1],
                    min |-> n.min[1], sec |-> n.sec[1],
                    nsec |-> IF fl = 0 THEN 0
                             ELSE FracNanos(SubSeq(rest, 2, fl + 1))]>>
          ELSE <<>>))))

\* Time.Format("2006-01-02 15_04_05")
TimeFormat(t) ==
  ZeroPad(Itoa(t.year), 4) \o "-" \o ZeroPad(Itoa(t.month), 2) \o "-"
  \o ZeroPad(Itoa(t.day), 2) \o " " \o ZeroPad(Itoa(t.hour), 2) \o "_"
  \o ZeroPad(Itoa(t.min), 2) \o "_" \o ZeroPad(Itoa(t.sec), 2)

(***************************************************************************)
(* Package entrypoint: metadata, fragments and their parsers.  A pointer   *)
(* that may be nil is a sequence of length at most one; an error result is *)
(* a non-empty string in the field err.                                    *)
(***************************************************************************)
InputDirPath == "/in"       \* root.InputDirPath
OutputDirPath == "/out"     \* root.Merge.OutputDirPath

\* Metadata.CreationTimeString
CreationTimeString(m) ==
  IF m.CreationTime = <<>> THEN "" ELSE TimeFormat(m.CreationTime[1])

\* VideoFragment{CurrentName: name}
NewFragment(name) ==
  [Id |-> "", Codec |-> "", CreationTime |-> <<>>, Index |-> 0,
   Extension |-> "", CurrentName |-> name, NewName |-> ""]

\* VideoFragment.InputPath, VideoFragment.NewPath
InputPath(f) == PathJoin(InputDirPath, f.CurrentName)

NewPath(f) == PathJoin(InputDirPath, f.NewName)

\* What ffprobe answers for a file: the process may fail, its output may be
\* undecodable, and the decoded data lists streams and format tags.
ProbeOutput(err, decodable, streams, hasTag, isString, tag) ==
  [err |-> err, decodable |-> decodable, streams |-> streams,
   hasTag |-> hasTag, isString |-> isString, tag |-> tag]

\* VideoFragment.parseMetadata.  status "panic" is the run-time panic of an
\* index out of range, which ends the process.
parseMetadata(vf, probe) ==
  IF probe.err THEN [status |-> "error", err |-> "ffprobe failed", vf |-> vf]
  ELSE IF ~probe.decodable
    THEN [status |-> "error", err |-> "cannot decode json", vf |-> vf]
  ELSE IF Len(probe.streams) = 0
    THEN [status |-> "panic", err |-> "index out of range", vf |-> vf]
  ELSE IF ~probe.hasTag
    THEN [status |-> "error", err |-> "tag creation_time not embedded",
          vf |-> vf]
  ELSE IF ~probe.isString
    THEN [status |-> "error", err |-> "tag creation_time is not a string",
          vf |-> vf]
  ELSE Let(TimeParse(probe.tag), LAMBDA creationTime :
    IF creationTime = <<>>
    THEN [status |-> "error", err |-> "cannot parse time", vf |-> vf]
    ELSE [status |-> "ok", err |-> "",
          vf |-> [vf EXCEPT !.Codec = probe.streams[1],
                            !.CreationTime = creationTime]])

\* Mutant of parseRaw: the groups of the index and of the id are swapped.
parseRaw_SwapsIndexAndId(vf) ==
  Let(FindStringSubmatch(Raw.Regex, vf.CurrentName), LAMBDA matches :
    IF Len(matches) < Len(Raw.Tokens.Slice)
    THEN [err |-> "cannot parse as raw name", vf |-> vf]
    ELSE Let(Atoi(matches[4]), LAMBDA index :
      IF index = <<>>
      THEN [err |-> "cannot parse index as an integer", vf |-> vf]
      ELSE [err |-> "",
            vf |-> [vf EXCEPT !.Id = matches[3], !.Index = index[1],
                              !.Extension = matches[5]]]))

\* VideoFragment.parseRaw
parseRaw(vf) ==
  Let(FindStringSubmatch(Raw.Regex, vf.CurrentName), LAMBDA matches :
    IF Len(matches) < Len(Raw.Tokens.Slice)
    THEN [err |-> "cannot parse as raw name", vf |-> vf]
    ELSE Let(Atoi(matches[3]), LAMBDA index :
      IF index = <<>>
      THEN [err |-> "cannot parse index as an integer", vf |-> vf]
      ELSE [err |-> "",
            vf |-> [vf EXCEPT !.Id = matches[4], !.Index = index[1],
                              !.Extension = matches[5]]]))

\* VideoFragment.parseRenamed
parseRenamed(vf) ==
  Let(FindStringSubmatch(Renamed.Regex, vf.CurrentName), LAMBDA matches :
    IF Len(matches) < Len(Renamed.Tokens.Slice)
    THEN [err |-> "cannot parse as pretty name", vf |-> vf]
    ELSE Let(Atoi(matches[Renamed.Tokens.Map["index"].Index + 2]),
             LAMBDA index :
      IF index = <<>> THEN [err |-> "invalid syntax", vf |-> vf]
      ELSE [err |-> "",
            vf |-> [vf EXCEPT
                      !.Id = matches[Renamed.Tokens.Map["id"].Index + 2],
                      !.Index = index[1],
                      !.Extension =
                        matches[Renamed.Tokens.Map["extension"].Index + 2]]]))

\* VideoFragment.parseMerged
parseMerged(vf) ==
  Let(FindStringSubmatch(Merged.Regex, vf.CurrentName), LAMBDA matches :
    IF Len(matches) < Len(Merged.Tokens.Slice)
    THEN [err |-> "cannot parse as merged name", vf |-> vf]
    ELSE [err |-> "",
          vf |-> [vf EXCEPT !.Id = matches[3], !.Extension = matches[4]]])

\* The name parsers in the order VideoFragment.Parse tries them.
nameParsers == <<"renamed", "raw", "merged">>

RunNameParser(kind, vf) ==
  IF kind = "renamed" THEN parseRenamed(vf)
  ELSE IF kind = "raw" THEN parseRaw(vf) ELSE parseMerged(vf)

\* The first of the parsers that accepts the name; kind "none" when none
\* does.
RECURSIVE FirstParser(_, _)
FirstParser(parsers, vf) ==
  IF parsers = <<>> THEN [kind |-> "none", vf |-> vf]
  ELSE Let(RunNameParser(Head(parsers), vf), LAMBDA r :
         IF r.err = "" THEN [kind |-> Head(parsers), vf |-> r.vf]
         ELSE FirstParser(Tail(parsers), vf))

NameParse(vf) == Let(vf, LAMBDA v : FirstParser(nameParsers, v))

\* Mutant of Parse: NewName is rendered before ffprobe gave the creation
\* time.
Parse_NamesBeforeProbe(vf, probe) ==
  Let(NameParse(vf), LAMBDA np :
    IF np.kind = "none"
    THEN [status |-> "error", err |-> "name not parseable", vf |-> vf,
          probed |-> FALSE]
    ELSE Let(parseMetadata(np.vf, probe), LAMBDA md :
      IF md.status # "ok"
      THEN [status |-> md.status, err |-> md.err, vf |-> md.vf,
            probed |-> TRUE]
      ELSE [status |-> "ok", err |-> "", probed |-> TRUE,
            vf |-> [md.vf EXCEPT !.NewName =
                      Sprintf(Renamed.Layout,
                              <<CreationTimeString(np.vf), md.vf.Id,
                                md.vf.Index, md.vf.Extension>>)]]))

\* Mutant of Parse: ffprobe is run before the name is looked at.
Parse_ProbesBeforeName(vf, probe) ==
  Let(parseMetadata(vf, probe), LAMBDA md0 :
    IF md0.status # "ok"
    THEN [status |-> md0.status, err |-> md0.err, vf |-> md0.vf,
          probed |-> TRUE]
    ELSE Let(NameParse(md0.vf), LAMBDA np :
      IF np.kind = "none"
      THEN [status |-> "error", err |-> "name not parseable", vf |-> vf,
            probed |-> TRUE]
      ELSE [status |-> "ok", err |-> "", probed |-> TRUE,
            vf |-> [np.vf EXCEPT !.NewName =
                      Sprintf(Renamed.Layout,
                              <<CreationTimeString(np.vf), np.vf.Id,
                                np.vf.Index, np.vf.Extension>>)]]))

\* Mutant of Parse: an error of parseMetadata is ignored.
Parse_IgnoresProbeError(vf, probe) ==
  Let(NameParse(vf), LAMBDA np :
    IF np.kind = "none"
    THEN [status |-> "error", err |-> "name not parseable", vf |-> vf,
          probed |-> FALSE]
    ELSE Let(parseMetadata(np.vf, probe), LAMBDA md :
      IF md.status = "panic"
      THEN [status |-> md.status, err |-> md.err, vf |-> md.vf,
            probed |-> TRUE]
      ELSE [status |-> "ok", err |-> "", probed |-> TRUE,
            vf |-> [md.vf EXCEPT !.NewName =
                      Sprintf(Renamed.Layout,
                              <<CreationTimeString(md.vf), md.vf.Id,
                                md.vf.Index, md.vf.Extension>>)]]))

\* VideoFragment.Parse; probe is what ffprobe answers for the file.  The
\* field probed tells whether ffprobe was run.
Parse(vf, probe) ==
  Let(NameParse(vf), LAMBDA np :
    IF np.kind = "none"
    THEN [status |-> "error", err |-> "name not parseable", vf |-> vf,
          probed |-> FALSE]
    ELSE Let(parseMetadata(np.vf, probe), LAMBDA md :
      IF md.status # "ok"
      THEN [status |-> md.status, err |-> md.err, vf |-> md.vf,
            probed |-> TRUE]
      ELSE [status |-> "ok", err |-> "", probed |-> TRUE,
            vf |-> [md.vf EXCEPT !.NewName =
                      Sprintf(Renamed.Layout,
                              <<CreationTimeString(md.vf), md.vf.Id,
                                md.vf.Index, md.vf.Extension>>)]]))

(***************************************************************************)
(* The aggregate: VideoWhole, VideoList and the locked section of Add.     *)
(***************************************************************************)
\* &VideoWhole{Video: f.Video, Fragments: []VideoFragment{}}
NewVideoWhole(f) ==
  [Id |-> f.Id, Codec |-> f.Codec, CreationTime |-> f.CreationTime,
   Fragments |-> <<>>, Expected |-> 0, Name |-> ""]

\* VideoWhole.OutputPath
OutputPath(vw) == PathJoin(OutputDirPath, vw.Name)

\* Mutant of AddLocked: Expected is the Index of the fragment added last.
AddLocked_ExpectedIsLast(vl, f0) ==
  Let(IF f0.Id \in DOMAIN vl THEN vl
      ELSE [k \in DOMAIN vl \cup {f0.Id} |->
              IF k = f0.Id THEN NewVideoWhole(f0) ELSE vl[k]], LAMBDA vl1 :
    Let(vl1[f0.Id], LAMBDA merged :
      Let([f0 EXCEPT !.CreationTime = merged.CreationTime], LAMBDA f :
        Let([merged EXCEPT !.Fragments = Append(merged.Fragments, f),
                           !.Expected = f.Index], LAMBDA m1 :
          [vl1 EXCEPT ![f0.Id] =
             IF m1.Name = ""
             THEN [m1 EXCEPT !.Name =
                     Sprintf(Merged.Layout,
                             <<CreationTimeString(m1), m1.Id, "mkv">>)]
             ELSE m1]))))

\* Mutant of AddLocked: the fragment keeps the creation time it was probed
\* with.
AddLocked_KeepsProbedTime(vl, f0) ==
  Let(IF f0.Id \in DOMAIN vl THEN vl
      ELSE [k \in DOMAIN vl \cup {f0.Id} |->
              IF k = f0.Id THEN NewVideoWhole(f0) ELSE vl[k]], LAMBDA vl1 :
    Let(vl1[f0.Id], LAMBDA merged :
      Let([merged EXCEPT
             !.Fragments = Append(merged.Fragments, f0),
             !.Expected = IF f0.Index > merged.Expected
                          THEN f0.Index ELSE merged.Expected], LAMBDA m1 :
        [vl1 EXCEPT ![f0.Id] =
           IF m1.Name = ""
           THEN [m1 EXCEPT !.Name =
                   Sprintf(Merged.Layout,
                           <<CreationTimeString(m1), m1.Id, "mkv">>)]
           ELSE m1])))

\* Mutant of AddLocked: every Add renders the Name, from the creation time
\* its fragment was probed with.
AddLocked_NameFromEveryFragment(vl, f0) ==
  Let(IF f0.Id \in DOMAIN vl THEN vl
      ELSE [k \in DOMAIN vl \cup {f0.Id} |->
              IF k = f0.Id THEN NewVideoWhole(f0) ELSE vl[k]], LAMBDA vl1 :
    Let(vl1[f0.Id], LAMBDA merged :
      Let([f0 EXCEPT !.CreationTime = merged.CreationTime], LAMBDA f :
        Let([merged EXCEPT
               !.Fragments = Append(merged.Fragments, f),
               !.Expected = IF f.Index > merged.Expected
                            THEN f.Index ELSE merged.Expected], LAMBDA m1 :
          [vl1 EXCEPT ![f0.Id] =
             [m1 EXCEPT !.Name =
                Sprintf(Merged.Layout,
                        <<CreationTimeString(f0), m1.Id, "mkv">>)]]))))

\* Mutant of AddLocked: Expected counts the fragments of the Recording.
AddLocked_ExpectedCountsFragments(vl, f0) ==
  Let(IF f0.Id \in DOMAIN vl THEN vl
      ELSE [k \in DOMAIN vl \cup {f0.Id} |->
              IF k = f0.Id THEN NewVideoWhole(f0) ELSE vl[k]], LAMBDA vl1 :
    Let(vl1[f0.Id], LAMBDA merged :
      Let([f0 EXCEPT !.CreationTime = merged.CreationTime], LAMBDA f :
        Let([merged EXCEPT !.Fragments = Append(merged.Fragments, f),
                           !.Expected = Len(merged.Fragments) + 1],
            LAMBDA m1 :
          [vl1 EXCEPT ![f0.Id] =
             IF m1.Name = ""
             THEN [m1 EXCEPT !.Name =
                     Sprintf(Merged.Layout,
                             <<CreationTimeString(m1), m1.Id, "mkv">>)]
             ELSE m1]))))

\* Mutant of AddLocked: every Add sets the Recording's creation time to
\* its fragment's.
AddLocked_LastTimeWins(vl, f0) ==
  Let(IF f0.Id \in DOMAIN vl THEN vl
      ELSE [k \in DOMAIN vl \cup {f0.Id} |->
              IF k = f0.Id THEN NewVideoWhole(f0) ELSE vl[k]], LAMBDA vl1 :
    Let(vl1[f0.Id], LAMBDA merged :
      Let([merged EXCEPT
             !.CreationTime = f0.CreationTime,
             !.Fragments = Append(merged.Fragments, f0),
             !.Expected = IF f0.Index > merged.Expected
                          THEN f0.Index ELSE merged.Expected], LAMBDA m1 :
        [vl1 EXCEPT ![f0.Id] =
           IF m1.Name = ""
           THEN [m1 EXCEPT !.Name =
                   Sprintf(Merged.Layout,
                           <<CreationTimeString(m1), m1.Id, "mkv">>)]
           ELSE m1])))

\* VideoList.Add between videosMutex.Lock() and the deferred Unlock(): the
\* collection after the parsed fragment f0 has been folded in.
AddLocked(vl, f0) ==
  Let(IF f0.Id \in DOMAIN vl THEN vl
      ELSE [k \in DOMAIN vl \cup {f0.Id} |->
              IF k = f0.Id THEN NewVideoWhole(f0) ELSE vl[k]], LAMBDA vl1 :
    Let(vl1[f0.Id], LAMBDA merged :
      Let(IF merged.CreationTime # <<>>
          THEN [f0 EXCEPT !.CreationTime = merged.CreationTime]
          ELSE f0, LAMBDA f :
        Let([merged EXCEPT
               !.CreationTime = IF merged.CreationTime # <<>>
                                THEN merged.CreationTime
                                ELSE f0.CreationTime,
               !.Fragments = Append(merged.Fragments, f),
               !.Expected = IF f.Index > merged.Expected
                            THEN f.Index ELSE merged.Expected], LAMBDA m1 :
          [vl1 EXCEPT ![f0.Id] =
             IF m1.Name = ""
             THEN [m1 EXCEPT !.Name =
                     Sprintf(Merged.Layout,
                             <<CreationTimeString(m1), m1.Id, "mkv">>)]
             ELSE m1]))))

(***************************************************************************)
(* Renaming and merging.                                                   *)
(***************************************************************************)
\* One line of what the program printed, logged or did to the file system.
Event(r, op, old, new, sources) ==
  [run |-> r, op |-> op, old |-> old, new |-> new, sources |-> sources]

\* renameInfo prints the change and never fails.
renameInfo(old, new) == [ops |-> <<"info">>, err |-> ""]

\* renameCommit: os.Rename, which the operating system lets succeed or not.
renameCommit(old, new, osOk) ==
  IF osOk THEN [ops |-> <<"rename">>, err |-> ""]
  ELSE [ops |-> <<>>, err |-> "rename failed"]

\* One action of an action list, by name.
RunAction(name, old, new, osOk) ==
  IF name = "renameInfo" THEN renameInfo(old, new)
  ELSE renameCommit(old, new, osOk)

\* The closure renameActionBuilder returns, applied to (old, new).
RECURSIVE RunActionList(_, _, _, _)
RunActionList(actionList, old, new, osOk) ==
  IF actionList = <<>> THEN [ops |-> <<>>, err |-> ""]
  ELSE LET r == RunAction(Head(actionList), old, new, osOk) IN
    IF r.err # "" THEN r
    ELSE LET rest == RunActionList(Tail(actionList), old, new, osOk)
         IN [ops |-> r.ops \o rest.ops, err |-> rest.err]

renameActionBuilder(actionList, old, new, osOk) ==
  IF old = new THEN [ops |-> <<"already">>, err |-> ""]
  ELSE RunActionList(actionList, old, new, osOk)

\* Mutant of renameAction: the dry run renames as well.
renameAction_CommitsAlways(commit, old, new, osOk) ==
  renameActionBuilder(<<"renameInfo", "renameCommit">>, old, new, osOk)

\* The renameAction that rename() selects, applied to (old, new).
renameAction(commit, old, new, osOk) ==
  IF commit
  THEN renameActionBuilder(<<"renameInfo", "renameCommit">>, old, new, osOk)
  ELSE renameInfo(old, new)

\* The file list VideoWhole.merge hands to ffmpeg, in the order it writes it.
MergeSources(vw) ==
  [i \in 1..Len(vw.Fragments) |-> InputPath(vw.Fragments[i])]


(***************************************************************************)
(* The directories and probe answers the model explores.                   *)
(***************************************************************************)
Stamp1 == "2023-06-01T10:00:00.5Z"
Stamp2 == "2023-06-02T11:30:15Z"

ProbeOk(codec, stamp) == ProbeOutput(FALSE, TRUE, <<codec>>, TRUE, TRUE, stamp)

ProbeNoTag == ProbeOutput(FALSE, TRUE, <<"h264">>, FALSE, FALSE, "")

ProbeNoStreams == ProbeOutput(FALSE, TRUE, <<>>, TRUE, TRUE, Stamp1)

ProbeOutputs ==
  {ProbeOk("h264", Stamp1), ProbeOk("hevc", Stamp2), ProbeNoTag,
   ProbeNoStreams}

InitialNames ==
  {"GX010042.mp4", "GX020042.mp4", "GH010042.mp4", "notes.txt",
   "Recording _-_ Date 2023-06-01 10_00_00 _-_ ID 0042 _-_ Part 01.mp4",
   "Recording _-_ Date 2023-06-01 10_00_00 _-_ ID 0007.mkv"}

\* The command lines: the rename subcommand (absent, dry run, --commit)
\* and the merge subcommand (absent, present).
Roots == [Rename : {"nil", "dry", "commit"}, Merge : BOOLEAN]

\* A file: where its content came from and what ffprobe answers for it.  A
\* file whose name no parser accepts is never probed.
Directories ==
  UNION {
    {[p \in {PathJoin(InputDirPath, n) : n \in S} |->
        [origin |-> p, probe |-> pr[p]]] :
       pr \in {q \in [{PathJoin(InputDirPath, n) : n \in S} -> ProbeOutputs] :
                 \A n \in S :
                   NameParse(NewFragment(n)).kind = "none"
                     => q[PathJoin(InputDirPath, n)] = ProbeNoTag}} :
    S \in {T \in SUBSET InitialNames : Cardinality(T) <= MaxEntries}}

\* The name of a file of the input directory, from its path.
BaseName(path) == From(path, Len(InputDirPath) + 2)

(***************************************************************************)
(* State.                                                                  *)
(***************************************************************************)
VARIABLES
  fs,          \* the input directory: path -> file
  root,        \* the parsed command line
  run,         \* number of the current invocation of the program
  mainPc,      \* where Main stands
  mainErr,     \* the error Main logged before returning, "" for none
  task,        \* the goroutines of VideoList.Parse: entry name -> state
  addWG,       \* the WaitGroup counter
  videosMutex, \* the entry whose Add holds the lock, "" when free
  videoList,   \* the collection: id -> VideoWhole
  rn,          \* the position of rename()'s loops
  mg,          \* the recordings merge() has not visited yet
  lockOrder,   \* history: the entries in the order they took the lock
  actLog,      \* history: bag of everything printed, logged or done
  rt           \* a matcher applied on its own: values, rendering, match

vars == <<fs, root, run, mainPc, mainErr, task, addWG, videosMutex,
          videoList, rn, mg, lockOrder, actLog, rt>>

Log(ev) == actLog' = actLog (+) SetToBag({ev})

EmptyList == [k \in {} |-> 0]

\* No matcher is being applied on its own.
NoRoundTrip ==
  [pc |-> "off", matcher |-> "", values |-> <<>>, text |-> "",
   matches |-> <<>>]

Init ==
  /\ fs \in Directories
  /\ root \in Roots
  /\ run = 1
  /\ mainPc = "Parse"
  /\ mainErr = ""
  /\ task = EmptyList
  /\ addWG = 0
  /\ videosMutex = ""
  /\ videoList = EmptyList
  /\ rn = [todo |-> {}, cur |-> "", pos |-> 0]
  /\ mg = {}
  /\ lockOrder = <<>>
  /\ actLog = EmptyBag
  /\ rt = NoRoundTrip

(***************************************************************************)
(* VideoList.Parse and the goroutines it starts.                           *)
(***************************************************************************)
\* os.ReadDir fails: Parse returns the error and Main logs it and returns.
ReadDirFails ==
  /\ UNCHANGED rt
  /\ mainPc = "Parse"
  /\ mainErr' = "cannot read directory"
  /\ mainPc' = "Exit"
  /\ Log(Event(run, "main_error", "", "", <<>>))
  /\ UNCHANGED <<fs, root, run, task, addWG, videosMutex, videoList, rn, mg,
                 lockOrder>>

\* os.ReadDir succeeds: one goroutine per entry, addWG.Add(1) for each.
ParseDispatch ==
  /\ UNCHANGED rt
  /\ mainPc = "Parse"
  /\ task' = [n \in {BaseName(p) : p \in DOMAIN fs} |->
                [pc |-> "parse", f |-> NewFragment(n), err |-> "",
                 probe |-> <<>>]]
  /\ addWG' = Cardinality(DOMAIN fs)
  /\ mainPc' = "Wait"
  /\ UNCHANGED <<fs, root, run, mainErr, videosMutex, videoList, rn, mg,
                 lockOrder, actLog>>

\* VideoList.Add up to videosMutex.Lock(): f.Parse().  On an error Add
\* returns it, the goroutine logs the warning and addWG.Done() runs.  A
\* panic in the goroutine ends the process.
AddParse(e) ==
  /\ UNCHANGED rt
  /\ mainPc = "Wait"
  /\ e \in DOMAIN task
  /\ task[e].pc = "parse"
  /\ \E probe \in {fs[InputPath(task[e].f)].probe} :
     \E r \in {Parse(task[e].f, probe)} :
       \/ /\ r.status = "ok"
          /\ task' = [task EXCEPT ![e] = [pc |-> "lock", f |-> r.vf,
                                          err |-> "", probe |-> <<probe>>]]
          /\ UNCHANGED <<mainPc, addWG, actLog>>
       \/ /\ r.status = "error"
          /\ task' = [task EXCEPT ![e] =
                        [pc |-> "done", f |-> r.vf, err |-> r.err,
                         probe |-> IF r.probed THEN <<probe>> ELSE <<>>]]
          /\ addWG' = addWG - 1
          /\ Log(Event(run, "add_failed", InputPath(task[e].f), "", <<>>))
          /\ UNCHANGED mainPc
       \/ /\ r.status = "panic"
          /\ task' = [task EXCEPT ![e] = [pc |-> "panic", f |-> r.vf,
                                          err |-> r.err, probe |-> <<probe>>]]
          /\ mainPc' = "Crashed"
          /\ UNCHANGED <<addWG, actLog>>
  /\ UNCHANGED <<fs, root, run, mainErr, videosMutex, videoList, rn, mg,
                 lockOrder>>

\* Mutant of AddLock: the lock is taken although another Add holds it.
AddLock_IgnoresHolder(e) ==
  /\ UNCHANGED rt
  /\ mainPc = "Wait"
  /\ e \in DOMAIN task
  /\ task[e].pc = "lock"
  /\ videosMutex' = e
  /\ task' = [task EXCEPT ![e].pc = "locked"]
  /\ lockOrder' = Append(lockOrder, e)
  /\ UNCHANGED <<fs, root, run, mainPc, mainErr, addWG, videoList, rn, mg,
                 actLog>>

\* videosMutex.Lock()
AddLock(e) ==
  /\ UNCHANGED rt
  /\ mainPc = "Wait"
  /\ e \in DOMAIN task
  /\ task[e].pc = "lock"
  /\ videosMutex = ""
  /\ videosMutex' = e
  /\ task' = [task EXCEPT ![e].pc = "locked"]
  /\ lockOrder' = Append(lockOrder, e)
  /\ UNCHANGED <<fs, root, run, mainPc, mainErr, addWG, videoList, rn, mg,
                 actLog>>

\* The locked section, the deferred videosMutex.Unlock(), return nil and
\* the goroutine's addWG.Done().
AddBody(e) ==
  /\ UNCHANGED rt
  /\ mainPc = "Wait"
  /\ e \in DOMAIN task
  /\ task[e].pc = "locked"
  /\ videoList' = AddLocked(videoList, task[e].f)
  /\ videosMutex' = ""
  /\ task' = [task EXCEPT ![e].pc = "done"]
  /\ addWG' = addWG - 1
  /\ UNCHANGED <<fs, root, run, mainPc, mainErr, rn, mg, lockOrder, actLog>>

\* Where Main goes after Parse, and after rename: the next requested mode.
AfterParse == IF root.Rename # "nil" THEN "Rename"
              ELSE IF root.Merge THEN "Merge" ELSE "Exit"

AfterRename == IF root.Merge THEN "Merge" ELSE "Exit"

\* Mutant of ParseReturn: Parse goes on without addWG.Wait().
ParseReturn_DoesNotWait ==
  /\ UNCHANGED rt
  /\ mainPc = "Wait"
  /\ IF DOMAIN videoList = {}
     THEN /\ mainErr' = "directory does not contain GoPro-named videos"
          /\ mainPc' = "Exit"
          /\ Log(Event(run, "main_error", "", "", <<>>))
          /\ UNCHANGED <<rn, mg>>
     ELSE /\ mainPc' = AfterParse
          /\ rn' = [todo |-> DOMAIN videoList, cur |-> "", pos |-> 0]
          /\ mg' = DOMAIN videoList
          /\ UNCHANGED <<mainErr, actLog>>
  /\ UNCHANGED <<fs, root, run, task, addWG, videosMutex, videoList,
                 lockOrder>>

\* addWG.Wait() returns; Parse fails when the collection is empty, and
\* Main then logs the error and returns.
ParseReturn ==
  /\ UNCHANGED rt
  /\ mainPc = "Wait"
  /\ addWG = 0
  /\ IF DOMAIN videoList = {}
     THEN /\ mainErr' = "directory does not contain GoPro-named videos"
          /\ mainPc' = "Exit"
          /\ Log(Event(run, "main_error", "", "", <<>>))
          /\ UNCHANGED <<rn, mg>>
     ELSE /\ mainPc' = AfterParse
          /\ rn' = [todo |-> DOMAIN videoList, cur |-> "", pos |-> 0]
          /\ mg' = DOMAIN videoList
          /\ UNCHANGED <<mainErr, actLog>>
  /\ UNCHANGED <<fs, root, run, task, addWG, videosMutex, videoList,
                 lockOrder>>


(***************************************************************************)
(* rename() and merge(), and Main around them.                             *)
(***************************************************************************)
\* The recording and the position in its Fragments that the loops of
\* rename() visit next, given the recording id the range over the map
\* yields when the inner loop has ended.
RenameAt(id) ==
  IF rn.cur # "" /\ rn.pos < Len(videoList[rn.cur].Fragments)
  THEN [id |-> rn.cur, pos |-> rn.pos + 1]
  ELSE [id |-> id, pos |-> 1]

\* Mutant of RenameAdvance: an error ends both loops.
RenameAdvance_StopsOnError(at, err) ==
  IF err # ""
  THEN [todo |-> {}, cur |-> at.id,
        pos |-> Len(videoList[at.id].Fragments)]
  ELSE [todo |-> rn.todo \ {at.id}, cur |-> at.id, pos |-> at.pos]

\* The loops of rename() after the fragment at has been handled with the
\* result err: on an error the loop continues with the next fragment.
RenameAdvance(at, err) ==
  [todo |-> rn.todo \ {at.id}, cur |-> at.id, pos |-> at.pos]

\* One iteration of the inner loop of rename(): renameAction(old, new)
\* and, on an error, log.Warn and continue.
RenameFragment(id, osOk) ==
  /\ UNCHANGED rt
  /\ mainPc = "Rename"
  /\ \/ rn.cur # "" /\ rn.pos < Len(videoList[rn.cur].Fragments) /\ id = rn.cur
     \/ /\ ~(rn.cur # "" /\ rn.pos < Len(videoList[rn.cur].Fragments))
        /\ id \in rn.todo
  /\ LET at == RenameAt(id)
         vf == videoList[at.id].Fragments[at.pos]
         old == InputPath(vf)
         new == NewPath(vf)
         r == renameAction(root.Rename = "commit", old, new,
                           osOk /\ old \in DOMAIN fs)
         ops == IF r.err # "" THEN Append(r.ops, "rename_failed") ELSE r.ops
         renamed == \E i \in 1..Len(r.ops) : r.ops[i] = "rename"
     IN /\ rn' = RenameAdvance(at, r.err)
        /\ fs' = IF renamed
                 THEN [p \in (DOMAIN fs \ {old}) \cup {new} |->
                         IF p = new THEN fs[old] ELSE fs[p]]
                 ELSE fs
        /\ actLog' = actLog (+)
             SetToBag({Event(run, ops[i], old, new, <<>>) :
                         i \in 1..Len(ops)})
  /\ UNCHANGED <<root, run, mainPc, mainErr, task, addWG, videosMutex,
                 videoList, mg, lockOrder>>

\* Both loops of rename() have ended: return nil.
RenameReturn ==
  /\ UNCHANGED rt
  /\ mainPc = "Rename"
  /\ rn.todo = {}
  /\ rn.cur # "" /\ rn.pos = Len(videoList[rn.cur].Fragments)
  /\ mainPc' = AfterRename
  /\ UNCHANGED <<fs, root, run, mainErr, task, addWG, videosMutex,
                 videoList, rn, mg, lockOrder, actLog>>

\* One iteration of merge(): vw.merge() runs ffmpeg on the file list, and
\* ffmpeg succeeds or not; a failure is logged and the loop goes on.
MergeVideo(id, ffmpegOk) ==
  /\ UNCHANGED rt
  /\ mainPc = "Merge"
  /\ id \in mg
  /\ mg' = mg \ {id}
  /\ LET vw == videoList[id]
         ev(op) == Event(run, op, "", OutputPath(vw), MergeSources(vw))
         found == \A i \in 1..Len(vw.Fragments) :
                    MergeSources(vw)[i] \in DOMAIN fs
     IN Log(IF ffmpegOk /\ found THEN ev("concat") ELSE ev("concat_failed"))
  /\ UNCHANGED <<fs, root, run, mainPc, mainErr, task, addWG, videosMutex,
                 videoList, rn, lockOrder>>

\* The loop of merge() has ended: return nil.
MergeReturn ==
  /\ UNCHANGED rt
  /\ mainPc = "Merge"
  /\ mg = {}
  /\ mainPc' = "Exit"
  /\ UNCHANGED <<fs, root, run, mainErr, task, addWG, videosMutex,
                 videoList, rn, mg, lockOrder, actLog>>

\* The program is started again, with the same command line, on the
\* directory the previous invocation left.
Restart ==
  /\ UNCHANGED rt
  /\ mainPc = "Exit"
  /\ run < MaxRuns
  /\ run' = run + 1
  /\ mainPc' = "Parse"
  /\ mainErr' = ""
  /\ task' = EmptyList
  /\ addWG' = 0
  /\ videoList' = EmptyList
  /\ rn' = [todo |-> {}, cur |-> "", pos |-> 0]
  /\ mg' = {}
  /\ lockOrder' = <<>>
  /\ UNCHANGED <<fs, root, videosMutex, actLog>>

Next ==
  \/ ReadDirFails
  \/ ParseDispatch
  \/ \E e \in DOMAIN task : AddParse(e)
  \/ \E e \in DOMAIN task : AddLock(e)
  \/ \E e \in DOMAIN task : AddBody(e)
  \/ ParseReturn
  \/ \E id \in DOMAIN videoList, osOk \in BOOLEAN : RenameFragment(id, osOk)
  \/ RenameReturn
  \/ \E id \in DOMAIN videoList, ffmpegOk \in BOOLEAN : MergeVideo(id, ffmpegOk)
  \/ MergeReturn
  \/ Restart

Spec == Init /\ [][Next]_vars

\* A step of the running program: of Main or of one of the goroutines.  The
\* Go scheduler runs every goroutine that can run, and Main when it can go
\* on; that the program is started again is up to the user.
ProgramStep ==
  \/ ReadDirFails
  \/ ParseDispatch
  \/ \E e \in DOMAIN task : AddParse(e)
  \/ \E e \in DOMAIN task : AddLock(e)
  \/ \E e \in DOMAIN task : AddBody(e)
  \/ ParseReturn
  \/ \E id \in DOMAIN videoList, osOk \in BOOLEAN : RenameFragment(id, osOk)
  \/ RenameReturn
  \/ \E id \in DOMAIN videoList, ffmpegOk \in BOOLEAN : MergeVideo(id, ffmpegOk)
  \/ MergeReturn

FairSpec == Init /\ [][Next]_vars /\ WF_vars(ProgramStep)

TypeOK ==
  /\ run \in 1..MaxRuns
  /\ mainPc \in {"Parse", "Wait", "Rename", "Merge", "Exit", "Crashed"}
  /\ addWG \in 0..Cardinality(DOMAIN task)
  /\ videosMutex \in DOMAIN task \cup {""}


(***************************************************************************)
(* The matchers on their own: a tuple of values, one per token, is         *)
(* rendered with the matcher's Layout and the text is matched with the     *)
(* matcher's Regex.                                                        *)
(***************************************************************************)
MatcherNames == {"Raw", "Renamed", "Merged"}

Matcher(name) ==
  IF name = "Raw" THEN Raw ELSE IF name = "Renamed" THEN Renamed ELSE Merged

\* Texts and numbers to draw the values of the tokens from; not every one
\* satisfies a capture expression.
CandidateTexts ==
  {"X", "H", "G", "0042", "0000", "9999", "42", "2023-06-01 10_00_00",
   "1999-12-31 23_59_59", "2023-06-01 10:00:00", "mp4", "MP4", "mkv", "m",
   "7z", "mp-4", ""}

CandidateIndices == {0, 1, 9, 10, 99, 100}

\* The whole text satisfies the capture expression of the token.
Satisfies(tok, text) ==
  text # "" /\ AtomsLen(tok.captureGroup, text) = Len(text)

\* The values of a token: the texts that satisfy its capture expression
\* and, for the token formatted as a number, the indices 0..99.
TokenValues(tok) ==
  IF tok.formatSpecifier = "%02d"
  THEN {n \in CandidateIndices : n \in 0..99}
  ELSE {v \in CandidateTexts : Satisfies(tok, v)}

RECURSIVE ValueTuples(_)
ValueTuples(toks) ==
  IF toks = <<>> THEN {<<>>}
  ELSE {<<v>> \o t : v \in TokenValues(Head(toks)),
                     t \in ValueTuples(Tail(toks))}

InitRoundTrip ==
  /\ fs = EmptyList
  /\ root = [Rename |-> "nil", Merge |-> FALSE]
  /\ run = 1
  /\ mainPc = "Exit"
  /\ mainErr = ""
  /\ task = EmptyList
  /\ addWG = 0
  /\ videosMutex = ""
  /\ videoList = EmptyList
  /\ rn = [todo |-> {}, cur |-> "", pos |-> 0]
  /\ mg = {}
  /\ lockOrder = <<>>
  /\ actLog = EmptyBag
  /\ \E name \in MatcherNames :
       \E values \in ValueTuples(Matcher(name).Tokens.Slice) :
         rt = [NoRoundTrip EXCEPT !.pc = "values", !.matcher = name,
                                  !.values = values]

\* fmt.Sprintf(m.Layout, values...)
RenderValues ==
  /\ rt.pc = "values"
  /\ rt' = [rt EXCEPT !.pc = "rendered",
                      !.text = Sprintf(Matcher(rt.matcher).Layout, rt.values)]
  /\ UNCHANGED <<fs, root, run, mainPc, mainErr, task, addWG, videosMutex,
                 videoList, rn, mg, lockOrder, actLog>>

\* m.Regex.FindStringSubmatch(text)
MatchText ==
  /\ rt.pc = "rendered"
  /\ rt' = [rt EXCEPT !.pc = "matched",
                      !.matches =
                        FindStringSubmatch(Matcher(rt.matcher).Regex, rt.text)]
  /\ UNCHANGED <<fs, root, run, mainPc, mainErr, task, addWG, videosMutex,
                 videoList, rn, mg, lockOrder, actLog>>

NextRoundTrip == RenderValues \/ MatchText

SpecRoundTrip == InitRoundTrip /\ [][NextRoundTrip]_vars

(***************************************************************************)
(* Vocabulary of the properties.                                           *)
(***************************************************************************)
\* Every goroutine of this run's Parse has finished its Add.
AllAddsDone ==
  /\ mainPc \notin {"Parse", "Crashed"}
  /\ \A e \in DOMAIN task : task[e].pc = "done"

\* The entries whose Add returned nil, and the fragment each one parsed.
Added == {e \in DOMAIN task : task[e].pc = "done" /\ task[e].err = ""}

\* The collection after the Adds of the entries of order, one after another.
RECURSIVE FoldAdd(_, _)
FoldAdd(vl, order) ==
  IF order = <<>> THEN vl
  ELSE Let(AddLocked(vl, task[Head(order)].f), LAMBDA v :
         FoldAdd(v, Tail(order)))

\* One fixed order of the elements of a set.
CanonicalOrder(S) ==
  CHOOSE q \in [1..Cardinality(S) -> S] :
    \A i, j \in 1..Cardinality(S) : i # j => q[i] # q[j]

\* What a run leaves of a collection when the append order is ignored.
View(vl) ==
  [id \in DOMAIN vl |->
     [Fragments |-> {vl[id].Fragments[i] : i \in 1..Len(vl[id].Fragments)},
      Expected |-> vl[id].Expected,
      CreationTime |-> vl[id].CreationTime,
      Name |-> vl[id].Name]]

\* The same without the reconciled timestamps and what is derived from them.
Untimed(f) == [f EXCEPT !.CreationTime = <<>>]

ViewUntimed(vl) ==
  [id \in DOMAIN vl |->
     [Fragments |-> {Untimed(vl[id].Fragments[i]) :
                       i \in 1..Len(vl[id].Fragments)},
      Expected |-> vl[id].Expected]]

\* All added fragments of one id were probed with the same creation time.
ProbesAgree ==
  \A d, e \in Added :
    task[d].f.Id = task[e].f.Id
      => task[d].f.CreationTime = task[e].f.CreationTime

\* The events of the log, and those of the current run.
Events == BagToSet(actLog)

RunEvents == {ev \in Events : ev.run = run}

(***************************************************************************)
(* C1 (as claimed).  Add is order-independent: whatever order the Adds of  *)
(* a directory took the lock in, every Recording ends with the same set of *)
(* fragments, Expected, CreationTime and Name as under one fixed order,    *)
(* also when fragments of one id probe to different creation times.        *)
(***************************************************************************)
C1_OrderIndependent ==
  AllAddsDone =>
    View(videoList) = View(FoldAdd(EmptyList, CanonicalOrder(Added)))

(***************************************************************************)
(* C1 (amended).  The fragments apart from their reconciled timestamp and  *)
(* Expected are the same under every order; CreationTime and Name (and the *)
(* fragments' timestamps) are the same under every order when all added    *)
(* fragments of one id probe to the same creation time.                    *)
(***************************************************************************)
C1_OrderIndependentWhenProbesAgree ==
  AllAddsDone =>
    /\ ViewUntimed(videoList)
         = ViewUntimed(FoldAdd(EmptyList, CanonicalOrder(Added)))
    /\ ProbesAgree
         => View(videoList) = View(FoldAdd(EmptyList, CanonicalOrder(Added)))

\* Two fragments of one recording were added in the order opposite to the
\* fixed one, with equal probes.
C1_Witness ==
  /\ AllAddsDone
  /\ ProbesAgree
  /\ \E id \in DOMAIN videoList :
       /\ Len(videoList[id].Fragments) = 2
       /\ videoList[id].Fragments[1].Index # videoList[id].Fragments[2].Index
       /\ videoList[id].Fragments[1].CurrentName
            = CanonicalOrder(Added)[2]

(***************************************************************************)
(* C2.  Every file list handed to the concatenation is in ascending order  *)
(* of the fragments' Index.                                                *)
(***************************************************************************)
IndexOfPath(path) ==
  CHOOSE n \in 0..99 :
    \E id \in DOMAIN videoList : \E i \in 1..Len(videoList[id].Fragments) :
      /\ InputPath(videoList[id].Fragments[i]) = path
      /\ videoList[id].Fragments[i].Index = n

C2_MergeInIndexOrder ==
  \A ev \in RunEvents :
    ev.op \in {"concat", "concat_failed"} =>
      \A i, j \in 1..Len(ev.sources) :
        i < j => IndexOfPath(ev.sources[i]) <= IndexOfPath(ev.sources[j])

(***************************************************************************)
(* C3.  After all Adds of a run every Recording has a fragment, every      *)
(* fragment carries the id of its Recording and of its map key, and every  *)
(* fragment's CreationTime is the Recording's.                             *)
(***************************************************************************)
C3_RecordingConsistent ==
  AllAddsDone =>
    \A id \in DOMAIN videoList :
      /\ videoList[id].Fragments # <<>>
      /\ videoList[id].Id = id
      /\ \A i \in 1..Len(videoList[id].Fragments) :
           /\ videoList[id].Fragments[i].Id = id
           /\ videoList[id].Fragments[i].CreationTime
                = videoList[id].CreationTime

\* A recording holds a fragment that was probed with another creation
\* time than the recording's.
C3_Witness ==
  /\ AllAddsDone
  /\ \E e \in Added :
       /\ task[e].f.Id \in DOMAIN videoList
       /\ task[e].f.CreationTime # videoList[task[e].f.Id].CreationTime


(***************************************************************************)
(* C4.  A fragment whose old path equals its new path is reported as       *)
(* already renamed, in a dry run and with --commit alike.                  *)
(***************************************************************************)
RenameOps == {"info", "already", "rename", "rename_failed"}

C4_SamePathReportedAlreadyRenamed ==
  \A ev \in RunEvents :
    ev.op \in RenameOps /\ ev.old = ev.new => ev.op = "already"

(***************************************************************************)
(* C5.  After a run of rename --commit whose renames all succeeded, a      *)
(* second run of rename --commit on the resulting directory renames        *)
(* nothing and reports every fragment as already renamed.                  *)
(***************************************************************************)
C5_SecondCommitRunRenamesNothing ==
  ( /\ run = 2
    /\ root.Rename = "commit"
    /\ \A ev \in Events :
         ev.run = 1 => ev.op \notin {"rename_failed", "main_error"} )
  => \A ev \in RunEvents : ev.op \in RenameOps => ev.op = "already"

(***************************************************************************)
(* C6.  The directory changes only by a rename that rename() performs      *)
(* with --commit for a fragment whose old and new paths differ; a dry run  *)
(* changes nothing.                                                        *)
(***************************************************************************)
C6_RenameOnlyOnCommit ==
  [][fs' # fs =>
       /\ root.Rename = "commit"
       /\ mainPc = "Rename"
       /\ \E ev \in BagToSet(actLog') :
            /\ ev.op = "rename" /\ ev.run = run /\ ev.old # ev.new
            /\ CopiesIn(ev, actLog') = CopiesIn(ev, actLog) + 1
            /\ ev.old \in DOMAIN fs /\ ev.old \notin DOMAIN fs'
            /\ ev.new \in DOMAIN fs']_vars

\* A dry run has shown a change of name and left the file where it was.
C6_Witness ==
  /\ root.Rename = "dry"
  /\ \E ev \in RunEvents :
       ev.op = "info" /\ ev.old # ev.new /\ ev.old \in DOMAIN fs

(***************************************************************************)
(* C7.  An Add whose name matches no form or whose probe fails returns an  *)
(* error and leaves the collection as it was.                              *)
(***************************************************************************)
C7_FailedAddReturnsError ==
  [][\A e \in DOMAIN task :
       (e \in DOMAIN task' /\ task[e].pc = "parse"
          /\ task'[e].pc \notin {"parse", "lock"})
       => /\ task'[e].pc = "done"
          /\ task'[e].err # ""
          /\ videoList' = videoList]_vars

(***************************************************************************)
(* C8.  An entry with an unrecognized name, or whose probe lacks the       *)
(* creation_time tag, is reported and is in no Recording; the collection   *)
(* is what the Adds of the other entries make of it in the order they took *)
(* the lock; and Parse succeeds when an entry was added.                   *)
(***************************************************************************)
\* The entry's name is unrecognized, or its probe lacks the tag.
FailsAsNamed(e) ==
  \/ NameParse(NewFragment(e)).kind = "none"
  \/ /\ task[e].probe # <<>>
     /\ ~task[e].probe[1].err /\ task[e].probe[1].decodable
     /\ Len(task[e].probe[1].streams) > 0
     /\ ~task[e].probe[1].hasTag

\* The entries of seq that are in S, in the order of seq.
RECURSIVE Only(_, _)
Only(seq, S) ==
  IF seq = <<>> THEN <<>>
  ELSE IF Head(seq) \in S THEN <<Head(seq)>> \o Only(Tail(seq), S)
  ELSE Only(Tail(seq), S)

C8_ParseFailureIsolated ==
  AllAddsDone =>
    LET others == {e \in DOMAIN task : ~FailsAsNamed(e)} IN
    /\ \A e \in DOMAIN task \ others :
         /\ task[e].err # ""
         /\ \A id \in DOMAIN videoList :
              \A i \in 1..Len(videoList[id].Fragments) :
                videoList[id].Fragments[i].CurrentName # e
    /\ videoList = FoldAdd(EmptyList, Only(lockOrder, others))
    /\ \A e \in others :
         task[e].err = ""
           => Cardinality({i \in 1..Len(lockOrder) : lockOrder[i] = e}) = 1
    /\ (mainPc # "Wait" /\ others \cap Added # {}) => mainErr = ""

\* An entry without the tag failed beside an added fragment of the same id,
\* and Parse has returned nil.
C8_Witness ==
  /\ AllAddsDone
  /\ mainPc # "Wait" /\ mainErr = ""
  /\ \E d, e \in DOMAIN task :
       /\ FailsAsNamed(d) /\ task[d].probe # <<>>
       /\ e \in Added
       /\ task[d].f.Id = task[e].f.Id

(***************************************************************************)
(* C9.  A failed rename of one fragment or a failed concatenation of one   *)
(* Recording is reported and the loop goes on: when Main returns after a   *)
(* successful Parse, every fragment was handed to the rename action once,  *)
(* every Recording to the concatenation once, and no mode returned an      *)
(* error.                                                                  *)
(***************************************************************************)
Once(evs) ==
  /\ Cardinality(evs) = 1
  /\ \A ev \in evs : CopiesIn(ev, actLog) = 1

C9_ActFailureIsolated ==
  (mainPc = "Exit" /\ DOMAIN videoList # {}) =>
    /\ mainErr = ""
    /\ root.Rename # "nil" =>
         \A id \in DOMAIN videoList :
           \A i \in 1..Len(videoList[id].Fragments) :
             Once({ev \in RunEvents :
                     /\ ev.op \in {"info", "already"}
                     /\ ev.old = InputPath(videoList[id].Fragments[i])})
    /\ root.Rename = "commit" =>
         \A ev \in RunEvents :
           ev.op = "info" =>
             \E ev2 \in RunEvents :
               /\ ev2.op \in {"rename", "rename_failed"}
               /\ ev2.old = ev.old /\ ev2.new = ev.new
    /\ root.Merge =>
         \A id \in DOMAIN videoList :
           Once({ev \in RunEvents :
                   /\ ev.op \in {"concat", "concat_failed"}
                   /\ ev.new = OutputPath(videoList[id])})

\* Main has returned after one rename failed and another was performed,
\* and one concatenation failed and another succeeded.
C9_Witness ==
  /\ mainPc = "Exit"
  /\ \E a, b, c, d \in RunEvents :
       /\ a.op = "rename_failed" /\ b.op = "rename"
       /\ c.op = "concat_failed" /\ d.op = "concat"

(***************************************************************************)
(* C10.  When every entry of the directory fails name matching or probing, *)
(* the run ends with the error of Parse and without a rename or a          *)
(* concatenation.                                                          *)
(***************************************************************************)
EveryEntryFails ==
  \A p \in DOMAIN fs :
    Parse(NewFragment(BaseName(p)), fs[p].probe).status # "ok"

C10_EmptyRunReturnsError ==
  (mainPc \in {"Exit", "Crashed"} /\ EveryEntryFails) =>
    /\ mainErr # ""
    /\ \A ev \in RunEvents :
         ev.op \notin RenameOps \cup {"concat", "concat_failed"}

(***************************************************************************)
(* C11.  Within one Recording no two fragments have the same Index.        *)
(***************************************************************************)
C11_IndexUniqueInRecording ==
  \A id \in DOMAIN videoList :
    \A i, j \in 1..Len(videoList[id].Fragments) :
      i # j => videoList[id].Fragments[i].Index
                 # videoList[id].Fragments[j].Index


(***************************************************************************)
(* C12 (as claimed).  A directory of GX010042.mp4 and GX020042.mp4 that    *)
(* both probe to 2023-06-01T10:00:00.5Z ends as one Recording 0042 with    *)
(* Expected 2, fragments to be named "... Part 01.mp4" and                 *)
(* "... Part 02.mp4", and the merged name "... ID 0042.mp4".               *)
(***************************************************************************)
\* The run started on the two files of the scenario and all Adds are done.
ScenarioTwoParts ==
  /\ AllAddsDone
  /\ DOMAIN task = {"GX010042.mp4", "GX020042.mp4"}
  /\ \A e \in DOMAIN task : task[e].probe = <<ProbeOk("h264", Stamp1)>>

\* The collection of the scenario, with the merged name given.
ScenarioResult(mergedName) ==
  /\ DOMAIN videoList = {"0042"}
  /\ videoList["0042"].Id = "0042"
  /\ videoList["0042"].Expected = 2
  /\ Len(videoList["0042"].Fragments) = 2
  /\ {videoList["0042"].Fragments[i].NewName : i \in 1..2}
       = {"Recording _-_ Date 2023-06-01 10_00_00 _-_ ID 0042 _-_ Part 01.mp4",
          "Recording _-_ Date 2023-06-01 10_00_00 _-_ ID 0042 _-_ Part 02.mp4"}
  /\ videoList["0042"].Name = mergedName

C12_ScenarioAsClaimed ==
  ScenarioTwoParts =>
    ScenarioResult("Recording _-_ Date 2023-06-01 10_00_00 _-_ ID 0042.mp4")

(***************************************************************************)
(* C12 (amended).  The same, with the merged name                          *)
(* "Recording _-_ Date 2023-06-01 10_00_00 _-_ ID 0042.mkv": the merged    *)
(* name always has the extension mkv.                                      *)
(***************************************************************************)
C12_ScenarioMergedNameMkv ==
  ScenarioTwoParts =>
    ScenarioResult("Recording _-_ Date 2023-06-01 10_00_00 _-_ ID 0042.mkv")

\* The scenario has run, the second part having been added first.
C12_Witness ==
  /\ ScenarioTwoParts
  /\ videoList["0042"].Fragments[1].CurrentName = "GX020042.mp4"

(***************************************************************************)
(* C13.  For Raw, Renamed and Merged and every tuple of values that each   *)
(* satisfy their token's capture expression, matching the text rendered    *)
(* with the Layout succeeds and capture group k gives back the value of    *)
(* token k-1 (the index as the number its two digits denote).              *)
(***************************************************************************)
C13_RenderMatchRoundTrip ==
  rt.pc = "matched" =>
    LET slice == Matcher(rt.matcher).Tokens.Slice IN
    /\ Len(rt.matches) = Len(slice) + 1
    /\ rt.matches[1] = rt.text
    /\ \A k \in 1..Len(slice) :
         /\ slice[k].Index = k - 1
         /\ IF slice[k].formatSpecifier = "%02d"
            THEN Atoi(rt.matches[k + 1]) = <<rt.values[k]>>
            ELSE rt.matches[k + 1] = rt.values[k]

\* A renamed name with a one-digit index has been rendered and matched.
C13_Witness ==
  /\ rt.pc = "matched"
  /\ rt.matcher = "Renamed"
  /\ rt.values[3] = 1
  /\ rt.matches # <<>>

(***************************************************************************)
(* C14.  At most one Add is inside the locked section at a time; and once  *)
(* all Adds have finished, the fragment of every Add that returned nil is  *)
(* in the collection exactly once, in the Recording keyed by its id, and   *)
(* the collection holds as many fragments as Adds returned nil.            *)
(***************************************************************************)
\* The places (id, position) of the collection that hold a fragment.
Places ==
  UNION {{<<id, i>> : i \in 1..Len(videoList[id].Fragments)} :
           id \in DOMAIN videoList}

InLockedSection == {e \in DOMAIN task : task[e].pc = "locked"}

C14_NoLostOrDuplicatedAdd ==
  /\ Cardinality(InLockedSection) <= 1
  /\ InLockedSection # {} => videosMutex \in InLockedSection
  /\ AllAddsDone =>
       /\ \A e \in Added :
            LET at == {pl \in Places :
                         videoList[pl[1]].Fragments[pl[2]].CurrentName = e}
            IN /\ Cardinality(at) = 1
               /\ \A pl \in at : pl[1] = task[e].f.Id
       /\ Cardinality(Places) = Cardinality(Added)

\* Two Adds of one recording id have both finished with success.
C14_Witness ==
  /\ AllAddsDone
  /\ Cardinality(Added) = 2
  /\ \A d, e \in Added : task[d].f.Id = task[e].f.Id

(***************************************************************************)
(* C15.  The emptiness check of VideoList.Parse, every step of rename and  *)
(* merge, and every rename or concatenation they start happen only when    *)
(* every dispatched Add has finished.                                      *)
(***************************************************************************)
\* Every goroutine VideoList.Parse started has run to its end.
EveryTaskFinished ==
  /\ addWG = 0
  /\ \A e \in DOMAIN task : task[e].pc = "done"

\* The step checks len(vl) after addWG.Wait().
ChecksEmptiness ==
  mainPc = "Wait" /\ mainPc' \in {"Rename", "Merge", "Exit"}

\* The step starts a rename or a concatenation, or reports on one.
StartsAct ==
  \E ev \in BagToSet(actLog') :
    /\ ev.op \in RenameOps \cup {"concat", "concat_failed"}
    /\ CopiesIn(ev, actLog') > CopiesIn(ev, actLog)

C15_BarrierBeforeUse ==
  [][(ChecksEmptiness \/ StartsAct \/ mainPc \in {"Rename", "Merge"})
       => EveryTaskFinished /\ task' = task]_vars

\* A concatenation has been run after two goroutines finished, one of them
\* with an error.
C15_Witness ==
  /\ mainPc \in {"Merge", "Exit"}
  /\ Cardinality(DOMAIN task) = 2
  /\ Cardinality(Added) = 1
  /\ \E ev \in RunEvents : ev.op = "concat"

(***************************************************************************)
(* C16.  A Recording's CreationTime is the probed time of the fragment     *)
(* whose Add was first to take the lock for that id, every fragment of the *)
(* Recording carries it, and no later Add changes it.                      *)
(***************************************************************************)
\* The entry that was first to take the lock with a fragment of this id.
FirstLocked(id) ==
  lockOrder[CHOOSE i \in 1..Len(lockOrder) :
              /\ task[lockOrder[i]].f.Id = id
              /\ \A j \in 1..(i - 1) : task[lockOrder[j]].f.Id # id]

CreationTimeIsFirstSeen ==
  \A id \in DOMAIN videoList :
    /\ videoList[id].CreationTime = task[FirstLocked(id)].f.CreationTime
    /\ \A i \in 1..Len(videoList[id].Fragments) :
         videoList[id].Fragments[i].CreationTime
           = task[FirstLocked(id)].f.CreationTime

C16_FirstSeenCreationTimeWins ==
  [][/\ CreationTimeIsFirstSeen'
     /\ \A id \in DOMAIN videoList \cap DOMAIN videoList' :
          videoList'[id].CreationTime = videoList[id].CreationTime]_vars

\* The second fragment of a Recording was probed with another time than
\* the first and carries the first's.
C16_Witness ==
  \E id \in DOMAIN videoList :
    /\ Len(videoList[id].Fragments) = 2
    /\ \E e \in Added :
         /\ e = videoList[id].Fragments[2].CurrentName
         /\ task[e].f.CreationTime # task[FirstLocked(id)].f.CreationTime
         /\ videoList[id].Fragments[2].CreationTime
              = task[FirstLocked(id)].f.CreationTime

(***************************************************************************)
(* C17.  In every reachable state each Recording's Expected is the largest *)
(* Index of the fragments it holds (0 when all are 0), and no Add makes it *)
(* smaller.                                                                *)
(***************************************************************************)
\* The largest Index among the fragments, 0 for none above 0.
MaxIndex(fragments) ==
  LET S == {fragments[i].Index : i \in 1..Len(fragments)} \cup {0}
  IN CHOOSE m \in S : \A n \in S : n <= m

ExpectedIsMaxIndex ==
  \A id \in DOMAIN videoList :
    videoList[id].Expected = MaxIndex(videoList[id].Fragments)

C17_ExpectedIsMaxIndex ==
  [][/\ ExpectedIsMaxIndex'
     /\ \A id \in DOMAIN videoList \cap DOMAIN videoList' :
          videoList'[id].Expected >= videoList[id].Expected]_vars

\* A fragment of a lower Index was added after one of a higher Index.
C17_Witness ==
  /\ \E id \in DOMAIN videoList :
       /\ Len(videoList[id].Fragments) = 2
       /\ videoList[id].Fragments[1].Index = 2
       /\ videoList[id].Fragments[2].Index = 1
       /\ videoList[id].Expected = 2

(***************************************************************************)
(* C18.  A Recording's Name is computed once: after every step that       *)
(* changes the collection, each Recording has a Name, which is the Merged  *)
(* layout rendered from the Recording's CreationTime and Id, and a         *)
(* Recording that was there before the step has the Name it had.           *)
(***************************************************************************)
NameIsMergedLayout ==
  \A id \in DOMAIN videoList :
    /\ videoList[id].Name # ""
    /\ videoList[id].Name
         = Sprintf(Merged.Layout,
                   <<CreationTimeString(videoList[id]), videoList[id].Id,
                     "mkv">>)
    /\ LET matches == FindStringSubmatch(Merged.Regex, videoList[id].Name)
       IN /\ Len(matches) = 4
          /\ matches[2] = CreationTimeString(videoList[id])
          /\ matches[3] = id

C18_NameComputedOnce ==
  [][videoList' # videoList =>
       /\ NameIsMergedLayout'
       /\ \A id \in DOMAIN videoList \cap DOMAIN videoList' :
            videoList'[id].Name = videoList[id].Name]_vars

\* A second Add, of a fragment probed with another time, has left the Name
\* that the first Add rendered.
C18_Witness ==
  \E id \in DOMAIN videoList :
    /\ Len(videoList[id].Fragments) = 2
    /\ \E e \in Added :
         /\ e = videoList[id].Fragments[2].CurrentName
         /\ CreationTimeString(task[e].f)
              # CreationTimeString(videoList[id])
    /\ videoList[id].Name
         = Sprintf(Merged.Layout,
                   <<CreationTimeString(
                       task[videoList[id].Fragments[1].CurrentName].f),
                     id, "mkv">>)

(***************************************************************************)
(* C19.  Parse tries the forms renamed, raw, merged in this order and      *)
(* stops at the first that matches the whole name: Id, Index and Extension *)
(* are the ones that form gives, ffprobe is run once and only after a      *)
(* match, and a name that matches no form fails with "name not parseable"  *)
(* without ffprobe being run.                                              *)
(***************************************************************************)
\* The positions in nameParsers of the forms that accept the name.
Accepting(name) ==
  {k \in 1..Len(nameParsers) :
     RunNameParser(nameParsers[k], NewFragment(name)).err = ""}

\* The goroutine of the entry has left f.Parse() in this step.
ParseEnds(e) ==
  /\ e \in DOMAIN task /\ e \in DOMAIN task'
  /\ task[e].pc = "parse" /\ task'[e].pc # "parse"

C19_FirstMatchingFormWins ==
  [][\A e \in DOMAIN task :
       ParseEnds(e) =>
         /\ nameParsers = <<"renamed", "raw", "merged">>
         /\ IF Accepting(e) = {}
            THEN /\ task'[e].pc = "done"
                 /\ task'[e].err = "name not parseable"
                 /\ task'[e].probe = <<>>
            ELSE LET k == CHOOSE i \in Accepting(e) :
                            \A j \in Accepting(e) : i <= j
                     named == RunNameParser(nameParsers[k], NewFragment(e)).vf
                 IN /\ task'[e].f.Id = named.Id
                    /\ task'[e].f.Index = named.Index
                    /\ task'[e].f.Extension = named.Extension
                    /\ task'[e].probe = <<fs[PathJoin(InputDirPath, e)].probe>>
                    /\ task'[e].err # "name not parseable"]_vars

\* A name of the renamed form has been parsed and probed, and a name of no
\* form has been refused.
C19_Witness ==
  \E d, e \in DOMAIN task :
    /\ Accepting(d) = {1}
    /\ task[d].pc # "parse" /\ task[d].probe # <<>>
    /\ Accepting(e) = {}
    /\ task[e].err = "name not parseable"

(***************************************************************************)
(* C20.  Whatever ffprobe answers (a process error, undecodable output, a  *)
(* response without streams, no creation_time tag or one that is not a     *)
(* string, a timestamp that does not parse), the Add of that entry returns *)
(* an error, its fragment is not added, and the run is not terminated.     *)
(***************************************************************************)
\* The answer of ffprobe does not give a codec and a creation time.
ProbeFails(probe) ==
  \/ probe.err
  \/ ~probe.decodable
  \/ Len(probe.streams) = 0
  \/ ~probe.hasTag
  \/ ~probe.isString
  \/ TimeParse(probe.tag) = <<>>

C20_ProbeFailureIsPerEntry ==
  /\ mainPc # "Crashed"
  /\ \A e \in DOMAIN task :
       (task[e].probe # <<>> /\ ProbeFails(task[e].probe[1]))
         => /\ task[e].pc = "done"
            /\ task[e].err # ""
            /\ \A id \in DOMAIN videoList :
                 \A i \in 1..Len(videoList[id].Fragments) :
                   videoList[id].Fragments[i].CurrentName # e

(***************************************************************************)
(* C21.  Under fair scheduling, with every ffprobe invocation returning,   *)
(* every dispatched goroutine eventually finishes its Add, the lock is     *)
(* always released again, and VideoList.Parse eventually returns.          *)
(***************************************************************************)
\* Some goroutine of VideoList.Parse has not finished.
SomeTaskRunning == \E e \in DOMAIN task : task[e].pc # "done"

\* VideoList.Parse has returned to Main (or was never entered).
ParseReturned == mainPc \in {"Rename", "Merge", "Exit"}

C21_ParsePhaseTerminates ==
  /\ SomeTaskRunning ~> ~SomeTaskRunning
  /\ (videosMutex # "") ~> (videosMutex = "")
  /\ (mainPc = "Wait") ~> ParseReturned

(***************************************************************************)
(* C22 (as claimed).  For every fragment held in the collection the date   *)
(* rendered inside its NewName is the Recording's CreationTime, the date   *)
(* of the Recording's Name, also when fragments of one id probe to         *)
(* different creation times.                                               *)
(***************************************************************************)
\* The date inside a name of the renamed form, "" when it is of no such form.
DateOfNewName(name) ==
  LET matches == FindStringSubmatch(Renamed.Regex, name)
  IN IF Len(matches) = 5 THEN matches[2] ELSE ""

\* The date inside a name of the merged form.
DateOfMergedName(name) ==
  LET matches == FindStringSubmatch(Merged.Regex, name)
  IN IF Len(matches) = 4 THEN matches[2] ELSE ""

C22_NewNameDateIsRecordings ==
  \A pl \in Places :
    LET f == videoList[pl[1]].Fragments[pl[2]] IN
    /\ DateOfNewName(f.NewName) = CreationTimeString(videoList[pl[1]])
    /\ DateOfNewName(f.NewName) = DateOfMergedName(videoList[pl[1]].Name)

(***************************************************************************)
(* C22 (amended).  The date inside a fragment's NewName is the creation    *)
(* time the fragment itself was probed with; it is the Recording's         *)
(* CreationTime, and the date of the Recording's Name, when the fragment   *)
(* was probed with the Recording's CreationTime.                           *)
(***************************************************************************)
C22_NewNameDateIsProbed ==
  \A pl \in Places :
    LET f == videoList[pl[1]].Fragments[pl[2]]
        probed == task[f.CurrentName].f
    IN /\ DateOfNewName(f.NewName) # ""
       /\ DateOfNewName(f.NewName) = CreationTimeString(probed)
       /\ probed.CreationTime = videoList[pl[1]].CreationTime
            => /\ DateOfNewName(f.NewName)
                    = CreationTimeString(videoList[pl[1]])
               /\ DateOfNewName(f.NewName)
                    = DateOfMergedName(videoList[pl[1]].Name)

\* A fragment whose timestamp was overwritten by the Recording's is held
\* with the NewName of the date it was probed with.
C22_Witness ==
  \E pl \in Places :
    LET f == videoList[pl[1]].Fragments[pl[2]] IN
    /\ task[f.CurrentName].f.CreationTime # f.CreationTime
    /\ f.CreationTime = videoList[pl[1]].CreationTime
    /\ DateOfNewName(f.NewName) = CreationTimeString(task[f.CurrentName].f)
    /\ DateOfNewName(f.NewName) # CreationTimeString(f)

(***************************************************************************)
(* C23.  Distinct directory entries held in the collection have distinct   *)
(* NewName values; with --commit no two fragments of a run are renamed to  *)
(* the same path and no rename overwrites the file of another fragment.    *)
(***************************************************************************)
C23_NoRenameCollision ==
  /\ \A pl, pm \in Places :
       pl # pm => videoList[pl[1]].Fragments[pl[2]].NewName
                    # videoList[pm[1]].Fragments[pm[2]].NewName
  /\ \A ev, ew \in RunEvents :
       (ev.op = "rename" /\ ew.op = "rename" /\ ev.old # ew.old)
         => ev.new # ew.new
  /\ \A ev \in RunEvents : \A pl \in Places :
       LET f == videoList[pl[1]].Fragments[pl[2]] IN
       (ev.op = "rename" /\ ev.old # InputPath(f))
         => /\ ev.new # InputPath(f)
            /\ ev.new # NewPath(f)

(***************************************************************************)
(* C24.  When a run renames with --commit and then merges, every source    *)
(* path handed to a concatenation is the path where the file of its        *)
(* fragment is at that moment: the new path if the run renamed it, the     *)
(* input path otherwise.                                                   *)
(***************************************************************************)
\* The path of the fragment's file once the renames of the run are done.
LocatedPath(f) ==
  IF \E ev \in RunEvents :
       ev.op = "rename" /\ ev.old = InputPath(f) /\ ev.new = NewPath(f)
  THEN NewPath(f)
  ELSE InputPath(f)

C24_MergeSourcesAreLocatedPaths ==
  (root.Rename = "commit" /\ root.Merge) =>
    \A ev \in RunEvents : \A id \in DOMAIN videoList :
      (ev.op \in {"concat", "concat_failed"}
         /\ ev.new = OutputPath(videoList[id]))
        => /\ Len(ev.sources) = Len(videoList[id].Fragments)
           /\ \A i \in 1..Len(ev.sources) :
                ev.sources[i] = LocatedPath(videoList[id].Fragments[i])

=============================================================================
